---- MODULE Spec2Model ----
(***************************************************************************)
(* array_nd_ref<A>: a non-owning reference wrapper over a C array of any   *)
(* rank.  The wrapper holds one pointer `a` to the first outermost element *)
(* (row) of the array it views; all operations recurse by dimension.       *)
(*                                                                         *)
(* Storage is modelled as one array X[rows] of scalars laid out row-major; *)
(* an address is the index of a scalar cell.  A wrapper of type            *)
(* array_nd_ref<X[W]> views W consecutive rows starting at its pointer, so *)
(* two wrappers can view the same rows, disjoint rows or overlapping rows. *)
(***************************************************************************)
EXTENDS Integers, Sequences, FiniteSets

VARIABLES
    shape,      \* extents <<E1,...,ER>> of the wrapped array type A (static)
    rows,       \* number of rows M of the underlying storage X[M]  (static)
    is_const,   \* TRUE iff A is const-qualified                    (static)
    mem,        \* the storage: cell address -> scalar
    a,          \* the pointer member of the wrappers x and y
    last,       \* the most recent call: operation, operands, result
    i           \* loop counter of the sliding-window loop

vars == <<shape, rows, is_const, mem, a, last, i>>

\* Bounds of the model.
MaxRank    == 3     \* rank of the wrapped array type
MaxExtent  == 2     \* extent of each dimension
MaxSize    == 4     \* scalars of the wrapped array type
MaxRankSeq == 2     \* rank of the wrapped array type, operation sequences
MaxSizeSeq == 2     \* scalars of the wrapped array type, operation sequences
MaxRows    == 4     \* rows of the storage under the sliding window

\* value_type of the arrays: bool, false < true.
Val == {0, 1}

Wrappers == {"x", "y"}

-----------------------------------------------------------------------------
\* Array types.

RECURSIVE array_size(_)
\* Number of scalars of an array with extents sh (1 for a scalar).
array_size(sh) ==
    IF sh = <<>> THEN 1 ELSE sh[1] * array_size(Tail(sh))

rank(sh) == Len(sh)
extent(sh) == sh[1]
size(sh) == extent(sh)
\* std::remove_extent_t<A>
remove_extent_type(sh) == Tail(sh)

RECURSIVE ShapesOfRank(_)
ShapesOfRank(r) ==
    IF r = 0 THEN {<<>>}
    ELSE {<<e>> \o t : e \in 1..MaxExtent, t \in ShapesOfRank(r - 1)}

\* The array types A the wrapper is instantiated with: rank >= 1, no zero
\* extent.
Shapes ==
    {sh \in UNION {ShapesOfRank(r) : r \in 1..MaxRank} :
        array_size(sh) <= MaxSize}

SmallShapes ==
    {sh \in Shapes : rank(sh) <= MaxRankSeq /\ array_size(sh) <= MaxSizeSeq}

\* Addresses of the rows at which a window of type A fits into the storage.
RowAddrs(sh, M) ==
    {r * array_size(Tail(sh)) : r \in 0..(M - extent(sh))}

\* Cells viewed by a wrapper of type A with pointer p.
Cells(p, sh) == p..(p + array_size(sh) - 1)

-----------------------------------------------------------------------------
\* Indexing.

\* a[I]: address of the I-th outermost element.
op_index(p, sh, I) == p + I * array_size(remove_extent_type(sh))

\* Mutant: operator() wraps the first subarray whatever the index.
op_call_first(p, sh, I) == op_index(p, sh, 0)

\* operator()(I): for rank > 1 a wrapper over a[I] (its pointer); for rank 1
\* the element a[I].
op_call(p, sh, I) == op_index(p, sh, I)

\* Mutant: the bounds check is off by one.
at_off_by_one(p, sh, I) ==
    IF I > extent(sh) THEN [err |-> TRUE, ref |-> -1]
    ELSE [err |-> FALSE, ref |-> op_index(p, sh, I)]

\* at(I): throws std::out_of_range when I >= extent, else a[I].
at(p, sh, I) ==
    IF I >= extent(sh) THEN [err |-> TRUE, ref |-> -1]
    ELSE [err |-> FALSE, ref |-> op_index(p, sh, I)]

\* Mutant: the array one row past the wrapper's pointer.
data_next_row(p) == p + 1

\* data(): *reinterpret_cast<A*>(a), the array at the wrapper's pointer.
data(p) == p

front(p, sh) == op_index(p, sh, 0)
back(p, sh) == op_index(p, sh, extent(sh) - 1)
begin(p) == p
end(p, sh) == p + extent(sh) * array_size(remove_extent_type(sh))

-----------------------------------------------------------------------------
\* fill.

RECURSIVE fill_n(_, _, _, _)
\* Mutant: one element fewer is filled.
fill_n_short(m, first, n, e) ==
    IF n <= 1 THEN m
    ELSE fill_n([m EXCEPT ![first] = e], first + 1, n - 1, e)

\* std::fill_n(first, n, e)
fill_n(m, first, n, e) ==
    IF n = 0 THEN m
    ELSE fill_n([m EXCEPT ![first] = e], first + 1, n - 1, e)

RECURSIVE fill(_, _, _, _)
RECURSIVE fill_loop(_, _, _, _, _)
\* Mutant: the loop over the subarrays starts at the second one.
fill_loop_from_1(m, p, sh, e, k) ==
    IF k = 0 THEN fill_loop(m, p, sh, e, 1)
    ELSE IF k < extent(sh)
    THEN fill_loop(fill(m, op_call(p, sh, k), remove_extent_type(sh), e),
                   p, sh, e, k + 1)
    ELSE m

\* for (unsigned i=0; i<extent; ++i) operator()(i).fill(e);
fill_loop(m, p, sh, e, k) ==
    IF k < extent(sh)
    THEN fill_loop(fill(m, op_call(p, sh, k), remove_extent_type(sh), e),
                   p, sh, e, k + 1)
    ELSE m

fill(m, p, sh, e) ==
    IF rank(sh) = 1 THEN fill_n(m, p, extent(sh), e)
    ELSE fill_loop(m, p, sh, e, 0)

-----------------------------------------------------------------------------
\* Deep assignment.

\* std::copy's precondition (d_first not in [first, last)) is broken when the
\* destination starts inside the source; the two outcomes a build produces
\* are the element-by-element forward loop and memmove.
CopyImpls == {"loop", "memmove"}

RECURSIVE copy_loop(_, _, _, _)
\* Mutant: the forward loop stops one element early.
copy_loop_short(m, first, lst, d) ==
    IF first = lst \/ first + 1 = lst THEN m
    ELSE copy_loop([m EXCEPT ![d] = m[first]], first + 1, lst, d + 1)

copy_loop(m, first, lst, d) ==
    IF first = lst THEN m
    ELSE copy_loop([m EXCEPT ![d] = m[first]], first + 1, lst, d + 1)

copy_memmove(m, first, lst, d) ==
    [q \in DOMAIN m |->
        IF q \in d..(d + (lst - first) - 1) THEN m[first + (q - d)] ELSE m[q]]

\* std::copy(first, last, d_first)
copy(m, first, lst, d, impl) ==
    IF impl = "memmove" /\ d \in first..(lst - 1)
    THEN copy_memmove(m, first, lst, d)
    ELSE copy_loop(m, first, lst, d)

RECURSIVE op_assign(_, _, _, _, _)
RECURSIVE assign_loop(_, _, _, _, _, _)
\* Mutant: the loop over the subarrays runs from the last to the first.
assign_loop_reverse(m, p, sh, rhs, impl, k) ==
    IF k < extent(sh)
    THEN assign_loop(op_assign(m, op_call(p, sh, extent(sh) - 1 - k),
                               remove_extent_type(sh),
                               op_index(rhs, sh, extent(sh) - 1 - k), impl),
                     p, sh, rhs, impl, k + 1)
    ELSE m

\* for (unsigned i=0; i<extent; ++i) operator()(i) = rhs[i];
assign_loop(m, p, sh, rhs, impl, k) ==
    IF k < extent(sh)
    THEN assign_loop(op_assign(m, op_call(p, sh, k), remove_extent_type(sh),
                               op_index(rhs, sh, k), impl),
                     p, sh, rhs, impl, k + 1)
    ELSE m

\* operator=(array_type const& rhs)
op_assign(m, p, sh, rhs, impl) ==
    IF rank(sh) = 1 THEN copy(m, rhs, rhs + extent(sh), p, impl)
    ELSE assign_loop(m, p, sh, rhs, impl, 0)

-----------------------------------------------------------------------------
\* Deep swap.

RECURSIVE std_swap(_, _, _, _)
RECURSIVE swap_ranges(_, _, _, _, _)
\* std::swap_ranges(first1, first1 + n, first2) over elements of type esh:
\* iter_swap on each pair in turn.
swap_ranges(m, first1, first2, n, esh) ==
    IF n = 0 THEN m
    ELSE swap_ranges(std_swap(m, first1, first2, esh),
                     first1 + array_size(esh), first2 + array_size(esh),
                     n - 1, esh)

\* Mutant: the scalar swap without the temporary.
std_swap_no_tmp(m, p, q, sh) ==
    IF sh = <<>>
    THEN LET m1 == [m EXCEPT ![p] = m[q]]
         IN  [m1 EXCEPT ![q] = m1[p]]
    ELSE swap_ranges(m, p, q, extent(sh), remove_extent_type(sh))

\* std::swap(T&, T&) for a scalar (via a temporary), and
\* std::swap(T(&)[N], T(&)[N]) for an array (swap_ranges).
std_swap(m, p, q, sh) ==
    IF sh = <<>>
    THEN LET tmp == m[p]
             m1  == [m EXCEPT ![p] = m[q]]
         IN  [m1 EXCEPT ![q] = tmp]
    ELSE swap_ranges(m, p, q, extent(sh), remove_extent_type(sh))

\* Mutant: the ranges swapped start at the first row of the storage.
swap_at_first_row(m, p, sh, b) ==
    swap_ranges(m, 0, b, extent(sh), remove_extent_type(sh))

\* swap(A& b): std::swap_ranges(a, a+extent, b)
swap(m, p, sh, b) ==
    swap_ranges(m, p, b, extent(sh), remove_extent_type(sh))

\* swap(array_nd_ref b): b is a by-value copy of the argument;
\* std::swap(a, b.a) exchanges this->a with the copy's pointer.  The result
\* is the pair of pointers (this->a, the caller's argument's a) afterwards.
swap_ref(this_a, arg_a) ==
    LET b_a     == arg_a                       \* the parameter b, a copy
        swapped == [a |-> b_a, b_a |-> this_a] \* std::swap(a, b.a)
    IN  [this |-> swapped.a, arg |-> arg_a]

\* free swap(array_nd_ref<A> x, array_nd_ref<A> y): both by value, x.swap(y)
\* acts on the parameter x.  The result is the caller's two pointers
\* afterwards.
free_swap(x_a, y_a) ==
    LET x == swap_ref(x_a, y_a).this   \* the parameter x after x.swap(y)
    IN  [x |-> x_a, y |-> y_a]

\* std::swap(a, b) on two wrappers (move-construct, move-assign twice):
\* the implicit copy operations copy the pointer.
generic_swap(pa, pb) ==
    LET tmp == pa
    IN  [x |-> pb, y |-> tmp]

-----------------------------------------------------------------------------
\* Comparisons.

RECURSIVE op_eq(_, _, _, _)
RECURSIVE eq_loop(_, _, _, _, _)
\* Mutant: the loop returns true after the first equal pair.
eq_loop_first_only(m, x, y, sh, k) ==
    IF k < 1
    THEN IF rank(sh) = 1
         THEN IF m[op_call(x, sh, k)] # m[op_call(y, sh, k)] THEN FALSE
              ELSE eq_loop(m, x, y, sh, k + 1)
         ELSE IF ~op_eq(m, op_call(x, sh, k), op_call(y, sh, k),
                        remove_extent_type(sh))
              THEN FALSE
              ELSE eq_loop(m, x, y, sh, k + 1)
    ELSE TRUE

\* rank 1: for (i = 0; i != x.size(); ++i) if (x(i) != y(i)) return false;
\* rank > 1: for (i = 0; i < extent; ++i) if (!(x(i) == y(i))) return false;
eq_loop(m, x, y, sh, k) ==
    IF k < extent(sh)
    THEN IF rank(sh) = 1
         THEN IF m[op_call(x, sh, k)] # m[op_call(y, sh, k)] THEN FALSE
              ELSE eq_loop(m, x, y, sh, k + 1)
         ELSE IF ~op_eq(m, op_call(x, sh, k), op_call(y, sh, k),
                        remove_extent_type(sh))
              THEN FALSE
              ELSE eq_loop(m, x, y, sh, k + 1)
    ELSE TRUE

\* operator==(array_nd_ref<A> x, array_nd_ref<Ac> y)
op_eq(m, x, y, sh) == eq_loop(m, x, y, sh, 0)

\* operator!=
op_ne(m, x, y, sh) == ~op_eq(m, x, y, sh)

RECURSIVE lexicographical_compare(_, _, _, _, _)
\* Mutant: a range that ends together with the other one counts as less.
lexicographical_compare_or_equal(m, first1, last1, first2, last2) ==
    IF first1 # last1 /\ first2 # last2
    THEN IF m[first1] < m[first2] THEN TRUE
         ELSE IF m[first2] < m[first1] THEN FALSE
         ELSE lexicographical_compare(m, first1 + 1, last1, first2 + 1, last2)
    ELSE first1 = last1

\* std::lexicographical_compare(first1, last1, first2, last2)
lexicographical_compare(m, first1, last1, first2, last2) ==
    IF first1 # last1 /\ first2 # last2
    THEN IF m[first1] < m[first2] THEN TRUE
         ELSE IF m[first2] < m[first1] THEN FALSE
         ELSE lexicographical_compare(m, first1 + 1, last1, first2 + 1, last2)
    ELSE first1 = last1 /\ first2 # last2

RECURSIVE op_lt(_, _, _, _)
RECURSIVE lt_loop(_, _, _, _, _)
\* Mutant: the loop lacks the `else if (x(i) > y(i)) return false` branch.
lt_loop_no_gt(m, x, y, sh, k) ==
    IF k < extent(sh)
    THEN IF op_lt(m, op_call(x, sh, k), op_call(y, sh, k),
                  remove_extent_type(sh))
         THEN TRUE
         ELSE lt_loop(m, x, y, sh, k + 1)
    ELSE FALSE

\* for (i = 0; i < extent; ++i)
\*     if (x(i) < y(i)) return true; else if (x(i) > y(i)) return false;
\* return false;
lt_loop(m, x, y, sh, k) ==
    IF k < extent(sh)
    THEN IF op_lt(m, op_call(x, sh, k), op_call(y, sh, k),
                  remove_extent_type(sh))
         THEN TRUE
         ELSE IF op_lt(m, op_call(y, sh, k), op_call(x, sh, k),
                       remove_extent_type(sh))
         THEN FALSE
         ELSE lt_loop(m, x, y, sh, k + 1)
    ELSE FALSE

\* operator<(array_nd_ref<A> x, array_nd_ref<Ac> y)
op_lt(m, x, y, sh) ==
    IF rank(sh) = 1
    THEN lexicographical_compare(m, begin(x), end(x, sh), begin(y), end(y, sh))
    ELSE lt_loop(m, x, y, sh, 0)

\* operator>, operator<=, operator>=
op_gt(m, x, y, sh) == op_lt(m, y, x, sh)
op_le(m, x, y, sh) == ~op_lt(m, y, x, sh)
op_ge(m, x, y, sh) == ~op_lt(m, x, y, sh)

\* Member comparisons with an array rhs wrap it:
\*   operator==(A const& y) is *this == array_nd_ref<A const>{y},
\*   operator!=(A const& y) is !operator==(y), and so on.
compare_eq_member(m, x, y, sh) == op_eq(m, x, y, sh)

compare(op, m, x, y, sh) ==
    CASE op = "==" -> op_eq(m, x, y, sh)
      [] op = "!=" -> ~compare_eq_member(m, x, y, sh)
      [] op = "<"  -> op_lt(m, x, y, sh)
      [] op = ">"  -> op_gt(m, x, y, sh)
      [] op = "<=" -> op_le(m, x, y, sh)
      [] op = ">=" -> op_ge(m, x, y, sh)

-----------------------------------------------------------------------------
\* Braced-list right-hand sides: `w = {{1}}` builds a temporary array_type by
\* aggregate initialization and deep-assigns from it.

RECURSIVE Literals(_)
\* The nested braced lists that initialize an array with extents sh: at every
\* level at most extent initializers, trailing ones may be omitted.
Literals(sh) ==
    IF sh = <<>> THEN Val
    ELSE UNION {[1..n -> Literals(Tail(sh))] : n \in 0..extent(sh)}

RECURSIVE zeros(_)
zeros(n) == IF n = 0 THEN <<>> ELSE <<0>> \o zeros(n - 1)

RECURSIVE aggregate_init(_, _)
RECURSIVE aggregate_elems(_, _, _)
\* Mutant: the last initializer of a list is taken as omitted.
aggregate_elems_drop_last(lit, sh, k) ==
    IF k > extent(sh) THEN <<>>
    ELSE (IF k < Len(lit)
          THEN aggregate_init(lit[k], Tail(sh))
          ELSE zeros(array_size(Tail(sh))))
         \o aggregate_elems(lit, sh, k + 1)

\* Elements k..extent of the array: the k-th initializer when the list has one,
\* value-initialization (zero) otherwise.
aggregate_elems(lit, sh, k) ==
    IF k > extent(sh) THEN <<>>
    ELSE (IF k <= Len(lit)
          THEN aggregate_init(lit[k], Tail(sh))
          ELSE zeros(array_size(Tail(sh))))
         \o aggregate_elems(lit, sh, k + 1)

\* The row-major scalars of the temporary array initialized from lit.
aggregate_init(lit, sh) ==
    IF sh = <<>> THEN <<lit>> ELSE aggregate_elems(lit, sh, 1)

\* The braced lists for each array type (a table, evaluated once).
LiteralsOf == [sh \in Shapes |-> Literals(sh)]

-----------------------------------------------------------------------------
\* State.

NCells(sh, M) == M * array_size(Tail(sh))
HeapAddrs == 0..(NCells(shape, rows) - 1)
Handles == RowAddrs(shape, rows)

Call(op, arg, r, err) == [op |-> op, arg |-> arg, r |-> r, err |-> err]
BoolInt(b) == IF b THEN 1 ELSE 0

\* The arrays exist with arbitrary contents and the wrappers x and y have
\* been constructed over rows of them.
InitWith(S, k, n, whole) ==
    /\ shape \in S
    /\ rows = k * extent(shape) + n
    /\ is_const \in BOOLEAN
    /\ mem \in [0..(NCells(shape, rows) - 1) -> Val]
    /\ a \in [Wrappers ->
                IF whole THEN {0, array_size(shape) * (k - 1)}
                ELSE RowAddrs(shape, rows)]
    /\ last = Call("init", -1, -1, FALSE)
    /\ i = 0

\* x and y are windows of W rows into storage of W+1 rows.
Init == InitWith(SmallShapes, 1, 1, FALSE)
\* x and y are windows of W rows into storage of 2W rows: rows that are
\* subarrays (rank > 1), rows that are scalars (rank 1).
InitInputs ==
    \/ InitWith({sh \in Shapes : rank(sh) > 1}, 2, 0, FALSE)
    \/ InitWith({sh \in Shapes : rank(sh) = 1}, 2, 0, FALSE)
\* The storage is two arrays of type A; x and y each view one of them.
InitArrays == InitWith(Shapes, 2, 0, TRUE)
\* The storage is one array of type A; x and y view it.
InitWhole == InitWith(Shapes, 1, 0, TRUE)

Static == UNCHANGED <<shape, rows, is_const, i>>

\* array_nd_ref(pointer p) : a{p}
Construct(w, p) ==
    /\ a' = [a EXCEPT ![w] = p]
    /\ last' = Call("construct", p, BoolInt(w = "x"), FALSE)
    /\ UNCHANGED mem
    /\ Static

\* Mutant: fill compiles for a const array type too.
Fill_any_type(e) ==
    /\ mem' = fill(mem, a.x, shape, e)
    /\ last' = Call("fill", e, -1, FALSE)
    /\ UNCHANGED a
    /\ Static

\* x.fill(e)
Fill(e) ==
    /\ ~is_const
    /\ mem' = fill(mem, a.x, shape, e)
    /\ last' = Call("fill", e, -1, FALSE)
    /\ UNCHANGED a
    /\ Static

\* x = b, b the array y views
Assign(impl) ==
    /\ ~is_const
    /\ mem' = op_assign(mem, a.x, shape, a.y, impl)
    /\ last' = Call("=", -1, -1, FALSE)
    /\ UNCHANGED a
    /\ Static

\* The storage extended by a temporary array holding tmp.
WithTemporary(m, tmp) ==
    LET n == NCells(shape, rows)
    IN  [q \in 0..(n + Len(tmp) - 1) |-> IF q < n THEN m[q] ELSE tmp[q - n + 1]]

\* x = {...}; the temporary overlaps nothing, so std::copy has one outcome
AssignList(lit) ==
    /\ ~is_const
    /\ LET n   == NCells(shape, rows)
           ext == WithTemporary(mem, aggregate_init(lit, shape))
           res == op_assign(ext, a.x, shape, n, "loop")
       IN  mem' = [q \in 0..(n - 1) |-> res[q]]
    /\ last' = Call("={}", lit, -1, FALSE)
    /\ UNCHANGED a
    /\ Static

\* x.swap(b), b the array y views
Swap ==
    /\ ~is_const
    /\ mem' = swap(mem, a.x, shape, a.y)
    /\ last' = Call("swap(A&)", -1, -1, FALSE)
    /\ UNCHANGED a
    /\ Static

\* x.swap(y): the parameter is a copy of y
SwapRef ==
    /\ a' = [a EXCEPT !.x = swap_ref(a.x, a.y).this,
                      !.y = swap_ref(a.x, a.y).arg]
    /\ last' = Call("swap(ref)", -1, -1, FALSE)
    /\ UNCHANGED mem
    /\ Static

\* swap(x, y): both parameters are copies
FreeSwap ==
    /\ a' = [a EXCEPT !.x = free_swap(a.x, a.y).x,
                      !.y = free_swap(a.x, a.y).y]
    /\ last' = Call("swap(ref,ref)", -1, -1, FALSE)
    /\ UNCHANGED mem
    /\ Static

\* std::swap(x, y)
StdSwap ==
    /\ a' = [a EXCEPT !.x = generic_swap(a.x, a.y).x,
                      !.y = generic_swap(a.x, a.y).y]
    /\ last' = Call("std::swap", -1, -1, FALSE)
    /\ UNCHANGED mem
    /\ Static

\* x = y: the implicit copy assignment copies the pointer
CopyAssign ==
    /\ a' = [a EXCEPT !.x = a.y]
    /\ last' = Call("copy", -1, -1, FALSE)
    /\ UNCHANGED mem
    /\ Static

CompareOps == {"==", "!=", "<", ">", "<=", ">="}

\* x OP b, b the array y views (member comparison with an array rhs)
Compare(op) ==
    /\ last' = Call(op, -1, BoolInt(compare(op, mem, a.x, a.y, shape)), FALSE)
    /\ UNCHANGED <<mem, a>>
    /\ Static

\* x.at(I)
At(I) ==
    /\ last' = Call("at", I, at(a.x, shape, I).ref, at(a.x, shape, I).err)
    /\ UNCHANGED <<mem, a>>
    /\ Static

\* x[I], I < extent
Index(I) ==
    /\ I < extent(shape)
    /\ last' = Call("[]", I, op_index(a.x, shape, I), FALSE)
    /\ UNCHANGED <<mem, a>>
    /\ Static

\* x.begin(), x.end()
Iterate(which) ==
    /\ last' = Call(which, -1,
                    IF which = "begin" THEN begin(a.x) ELSE end(a.x, shape),
                    FALSE)
    /\ UNCHANGED <<mem, a>>
    /\ Static

\* x.data()
Data ==
    /\ last' = Call("data", -1, data(a.x), FALSE)
    /\ UNCHANGED <<mem, a>>
    /\ Static

Next ==
    \/ \E w \in Wrappers, p \in Handles : Construct(w, p)
    \/ \E e \in Val : Fill(e)
    \/ \E impl \in CopyImpls : Assign(impl)
    \/ \E lit \in LiteralsOf[shape] : AssignList(lit)
    \/ Swap
    \/ SwapRef
    \/ FreeSwap
    \/ StdSwap
    \/ CopyAssign
    \/ \E op \in CompareOps : Compare(op)
    \/ \E I \in 0..(extent(shape) + 1) : At(I)
    \/ \E I \in 0..(extent(shape) - 1) : Index(I)
    \/ \E which \in {"begin", "end"} : Iterate(which)
    \/ Data

\* Any sequence of operations.
Spec == Init /\ [][Next]_vars

\* Single families of operations over the larger array types.
NextFill == \E e \in Val : Fill(e)
SpecFill == InitInputs /\ [][NextFill]_vars

NextAssign == \E impl \in CopyImpls : Assign(impl)
SpecAssign == InitInputs /\ [][NextAssign]_vars

NextAssignList == \E lit \in LiteralsOf[shape] : AssignList(lit)
SpecAssignList == InitWhole /\ [][NextAssignList]_vars

NextSwap == Swap
SpecSwap == InitInputs /\ [][NextSwap]_vars

NextCompare == \E op \in CompareOps : Compare(op)
SpecCompare == InitArrays /\ [][NextCompare]_vars

-----------------------------------------------------------------------------
\* The sliding-window loop:
\*   int Ns[M][N]{};
\*   for (unsigned i = 0; i < winmax; ++i)
\*   { array_nd_ref<int[W][N]> window{&Ns[i]}; window.fill(i); }

winmax == rows - extent(shape) + 1

InitWindow ==
    /\ shape \in Shapes
    /\ rows \in extent(shape)..MaxRows
    /\ is_const = FALSE
    /\ mem = [q \in 0..(NCells(shape, rows) - 1) |-> 0]
    /\ a = [w \in Wrappers |-> 0]
    /\ last = Call("init", -1, -1, FALSE)
    /\ i = 0

WindowStep ==
    /\ i < winmax
    /\ LET window == op_index(0, <<rows>> \o Tail(shape), i)   \* &Ns[i]
       IN  /\ a' = [a EXCEPT !.x = window]
           /\ mem' = fill(mem, window, shape, i)
    /\ last' = Call("fill", i, -1, FALSE)
    /\ i' = i + 1
    /\ UNCHANGED <<shape, rows, is_const>>

NextWindow == WindowStep
SpecWindow == InitWindow /\ [][NextWindow]_vars

-----------------------------------------------------------------------------
\* Multi-indices.

RECURSIVE Indices(_)
\* The valid index tuples (i1..iR) of an array with extents sh.
Indices(sh) ==
    IF sh = <<>> THEN {<<>>}
    ELSE {<<k>> \o t : k \in 0..(extent(sh) - 1), t \in Indices(Tail(sh))}

RECURSIVE scalar_at(_, _, _)
\* Address of w[i1][i2]...[iR].
scalar_at(p, sh, idx) ==
    IF idx = <<>> THEN p
    ELSE scalar_at(op_index(p, sh, idx[1]), Tail(sh), Tail(idx))

Disjoint(p, q, sh) == Cells(p, sh) \cap Cells(q, sh) = {}

-----------------------------------------------------------------------------
\* C1: deep assignment x = src, src an array of x's shape that is either
\* disjoint from the storage x refers to or that very array: afterwards every
\* scalar of x's storage holds the value src held at the same multi-index
\* before, and src is unchanged.
AssignCopiesSource ==
    [][(last'.op = "=" /\ (Disjoint(a.x, a.y, shape) \/ a.x = a.y))
        => \A idx \in Indices(shape) :
              /\ mem'[scalar_at(a'.x, shape, idx)]
                    = mem[scalar_at(a.y, shape, idx)]
              /\ mem'[scalar_at(a.y, shape, idx)]
                    = mem[scalar_at(a.y, shape, idx)]]_vars

\* A rank-3 array assigned from a disjoint source with mixed contents.
AssignWitness ==
    /\ last.op = "="
    /\ rank(shape) = 3
    /\ array_size(shape) = 4
    /\ Disjoint(a.x, a.y, shape)
    /\ \A idx \in Indices(shape) :
          mem[scalar_at(a.x, shape, idx)] = mem[scalar_at(a.y, shape, idx)]
    /\ \E idx, jdx \in Indices(shape) :
          mem[scalar_at(a.x, shape, idx)] # mem[scalar_at(a.x, shape, jdx)]

\* C2: deep swap x.swap(b), b an array of x's shape that is either disjoint
\* from the storage x refers to or that very array: every scalar of x's
\* storage holds what b held at the same multi-index and b holds what x's
\* storage held (so self-swap changes nothing).
SwapExchangesElements ==
    [][(last'.op = "swap(A&)" /\ (Disjoint(a.x, a.y, shape) \/ a.x = a.y))
        => \A idx \in Indices(shape) :
              /\ mem'[scalar_at(a'.x, shape, idx)]
                    = mem[scalar_at(a.y, shape, idx)]
              /\ mem'[scalar_at(a'.y, shape, idx)]
                    = mem[scalar_at(a.x, shape, idx)]]_vars

\* After a swap of disjoint 2x2 arrays x's storage is all true and b all
\* false.
SwapWitness ==
    /\ last.op = "swap(A&)"
    /\ shape = <<2, 2>>
    /\ Disjoint(a.x, a.y, shape)
    /\ \A idx \in Indices(shape) :
          /\ mem[scalar_at(a.x, shape, idx)] = 1
          /\ mem[scalar_at(a.y, shape, idx)] = 0

\* C7: after x.fill(e) the scalar at every valid multi-index of x is e, and
\* these are E1*...*ER scalars.
FillSetsEveryScalar ==
    last.op = "fill"
    => /\ \A idx \in Indices(shape) :
             mem[scalar_at(a.x, shape, idx)] = last.arg
       /\ Cardinality({scalar_at(a.x, shape, idx) : idx \in Indices(shape)})
             = array_size(shape)

\* A rank-3 window filled with true inside storage that still holds a false.
FillWitness ==
    /\ last.op = "fill"
    /\ last.arg = 1
    /\ rank(shape) = 3
    /\ array_size(shape) = 4
    /\ \E q \in HeapAddrs : mem[q] = 0

\* C3 (as claimed): after x.swap(y) or swap(x, y) on two wrappers, x's pointer
\* is y's former pointer and y's is x's former pointer, and no scalar has
\* changed.
ShallowSwapExchangesHandles ==
    [][last'.op \in {"swap(ref)", "swap(ref,ref)"}
        => (a'.x = a.y /\ a'.y = a.x /\ mem' = mem)]_vars

\* Row-major order of two multi-indices of the same array.
RECURSIVE IndexBefore(_, _)
IndexBefore(idx, jdx) ==
    /\ idx # <<>>
    /\ \/ idx[1] < jdx[1]
       \/ idx[1] = jdx[1] /\ IndexBefore(Tail(idx), Tail(jdx))

\* Lexicographic comparison of the arrays at p and q flattened in row-major
\* order: at the first position where they differ, p's scalar is the smaller.
FlatLess(m, p, q, sh) ==
    \E idx \in Indices(sh) :
        /\ m[scalar_at(p, sh, idx)] < m[scalar_at(q, sh, idx)]
        /\ \A jdx \in Indices(sh) :
              IndexBefore(jdx, idx)
              => m[scalar_at(p, sh, jdx)] = m[scalar_at(q, sh, jdx)]

AllEqual(m, p, q, sh) ==
    \A idx \in Indices(sh) :
        m[scalar_at(p, sh, idx)] = m[scalar_at(q, sh, idx)]

\* C4: x < y is the lexicographic comparison of the two arrays flattened in
\* row-major order (false when all scalars are equal); for rank > 1 the first
\* pair of subarrays that are not equal decides.
LessIsFlatLexicographic ==
    last.op = "<"
    => /\ (last.r = 1) <=> FlatLess(mem, a.x, a.y, shape)
       /\ AllEqual(mem, a.x, a.y, shape) => last.r = 0
       /\ rank(shape) > 1
          => \A k \in 0..(extent(shape) - 1) :
                (/\ \A j \in 0..(k - 1) :
                       AllEqual(mem, op_index(a.x, shape, j),
                                op_index(a.y, shape, j), Tail(shape))
                 /\ ~AllEqual(mem, op_index(a.x, shape, k),
                              op_index(a.y, shape, k), Tail(shape)))
                => ((last.r = 1) <=> FlatLess(mem, op_index(a.x, shape, k),
                                              op_index(a.y, shape, k),
                                              Tail(shape)))

\* Two 2x2 arrays that differ only in the last element, x's being the smaller.
LessWitness ==
    /\ last.op = "<"
    /\ last.r = 1
    /\ shape = <<2, 2>>
    /\ \A idx \in Indices(shape) :
          (mem[scalar_at(a.x, shape, idx)] # mem[scalar_at(a.y, shape, idx)])
          <=> idx = <<1, 1>>

\* C5: x == y is true iff every pair of corresponding scalars is equal, and
\* x != y is its negation, whether or not the array type is const-qualified.
EqualIsElementwise ==
    /\ last.op = "==" => ((last.r = 1) <=> AllEqual(mem, a.x, a.y, shape))
    /\ last.op = "!=" => ((last.r = 1) <=> ~AllEqual(mem, a.x, a.y, shape))

\* Two const rank-3 arrays that differ in exactly the innermost last scalar
\* compare unequal.
EqualWitness ==
    /\ last.op = "=="
    /\ last.r = 0
    /\ is_const
    /\ shape \in {<<1, 2, 2>>, <<2, 1, 2>>}
    /\ \A idx \in Indices(shape) :
          (mem[scalar_at(a.x, shape, idx)] # mem[scalar_at(a.y, shape, idx)])
          <=> idx = <<shape[1] - 1, shape[2] - 1, shape[3] - 1>>

\* C6: at(I) signals out-of-range exactly when I >= extent and then changes
\* neither pointer nor storage; below the extent it returns what x[I] returns;
\* no other operation has an error outcome.
CheckedAccess ==
    /\ [](last.op = "at"
          => /\ last.err <=> last.arg >= extent(shape)
             /\ ~last.err => last.r = op_index(a.x, shape, last.arg))
    /\ [](last.err => last.op = "at")
    /\ [][last'.op = "at" => (a' = a /\ mem' = mem)]_vars

\* at(extent) on an array of extent 2 signals the error.
CheckedAccessWitness ==
    /\ last.op = "at"
    /\ last.err
    /\ extent(shape) = 2
    /\ last.arg = extent(shape)

Min(p, q) == IF p < q THEN p ELSE q

\* C8: when the loop over the window offsets 0..M-W has ended, every scalar
\* of row r of the storage holds min(r, M-W).
SlidingWindowPattern ==
    i = winmax
    => \A r \in 0..(rows - 1) :
          \A idx \in Indices(Tail(shape)) :
             mem[scalar_at(op_index(0, <<rows>> \o Tail(shape), r),
                           Tail(shape), idx)]
                = Min(r, rows - extent(shape))

\* M = 4 rows of 2 scalars, windows of 2 rows: rows 0, 1, 2, 2.
SlidingWindowWitness ==
    /\ i = winmax
    /\ rows = 4
    /\ shape = <<2, 2>>
    /\ mem = [q \in 0..7 |-> IF q < 2 THEN 0 ELSE IF q < 4 THEN 1 ELSE 2]

\* Whether the braced list gives an initializer for the element at idx, and
\* that initializer.
RECURSIVE Specified(_, _)
Specified(lit, idx) ==
    \/ idx = <<>>
    \/ /\ idx[1] + 1 <= Len(lit)
       /\ Specified(lit[idx[1] + 1], Tail(idx))

RECURSIVE Initializer(_, _)
Initializer(lit, idx) ==
    IF idx = <<>> THEN lit ELSE Initializer(lit[idx[1] + 1], Tail(idx))

\* C9: after x = {...} every element the list gives holds the given value
\* and every element it omits is zero (so {} zeroes the target).
ListAssignZeroFills ==
    last.op = "={}"
    => \A idx \in Indices(shape) :
          mem[scalar_at(a.x, shape, idx)]
             = IF Specified(last.arg, idx) THEN Initializer(last.arg, idx)
               ELSE 0

\* x = {{1}} on a 2x2 array: element [0][0] is 1, the others 0.
ListAssignWitness ==
    /\ last.op = "={}"
    /\ shape = <<2, 2>>
    /\ last.arg = <<<<1>>>>
    /\ mem = [q \in 0..3 |-> IF q = 0 THEN 1 ELSE 0]

\* The operations that set a wrapper's pointer.
HandleOps == {"construct", "swap(ref)", "std::swap", "copy"}

\* C10: a wrapper constructed over the array at p has data() at p, data()
\* is the array at the wrapper's pointer, and no operation other than
\* construction, shallow swap and copy assignment changes a pointer: the
\* others write at most the storage x refers to (deep swap also the other
\* array).
BindingIsStable ==
    /\ [](last.op = "construct"
          => data(a[IF last.r = 1 THEN "x" ELSE "y"]) = last.arg)
    /\ [](last.op = "data" => last.r = a.x)
    /\ [][last'.op \notin HandleOps
          => /\ a' = a
             /\ \A q \in HeapAddrs :
                   mem'[q] # mem[q]
                   => \/ q \in Cells(a.x, shape)
                      \/ last'.op = "swap(A&)" /\ q \in Cells(a.y, shape)]_vars

\* data() of a wrapper bound away from the start of the storage.
BindingWitness ==
    /\ last.op = "data"
    /\ ~is_const
    /\ a.x # 0
    /\ a.x # a.y
    /\ last.r = a.x

-----------------------------------------------------------------------------
\* Element access: w(i1)(i2)..., w[i1][i2]... and get<I>(w).

RECURSIVE call_chain(_, _, _)
\* w(i1)(i2)...(ik): each (I) on a wrapper of rank > 1 gives a wrapper over
\* a[I], on which the next (I) acts; on rank 1 it gives the element a[I].
call_chain(p, sh, idx) ==
    IF idx = <<>> THEN p
    ELSE call_chain(op_call(p, sh, idx[1]), remove_extent_type(sh), Tail(idx))

RECURSIVE index_chain(_, _, _)
\* w[i1][i2]...[ik]: w[i1] is the subarray a[i1] itself, the further
\* subscripts are built-in array subscripts.
index_chain(p, sh, idx) ==
    IF idx = <<>> THEN p
    ELSE index_chain(op_index(p, sh, idx[1]), remove_extent_type(sh),
                     Tail(idx))

\* x and y are windows of W rows into storage of W+1 rows, any array type.
InitWindows == InitWith(Shapes, 1, 1, FALSE)

\* x(I), I < extent
CallOp(I) ==
    /\ I < extent(shape)
    /\ last' = Call("()", I, op_call(a.x, shape, I), FALSE)
    /\ UNCHANGED <<mem, a>>
    /\ Static

\* &x(i1)(i2)...(iR)
CallChain(idx) ==
    /\ last' = Call("()()", idx, call_chain(a.x, shape, idx), FALSE)
    /\ UNCHANGED <<mem, a>>
    /\ Static

\* &x[i1][i2]...[iR]
IndexChain(idx) ==
    /\ last' = Call("[][]", idx, index_chain(a.x, shape, idx), FALSE)
    /\ UNCHANGED <<mem, a>>
    /\ Static

\* x(i1)(i2)...(iR) = v: the element reference is value_type&, assignable
\* only when the array type is not const.
WriteCall(idx, v) ==
    /\ ~is_const
    /\ mem' = [mem EXCEPT ![call_chain(a.x, shape, idx)] = v]
    /\ last' = Call("()=", idx, v, FALSE)
    /\ UNCHANGED a
    /\ Static

\* x[i1][i2]...[iR] = v
WriteIndex(idx, v) ==
    /\ ~is_const
    /\ mem' = [mem EXCEPT ![index_chain(a.x, shape, idx)] = v]
    /\ last' = Call("[]=", idx, v, FALSE)
    /\ UNCHANGED a
    /\ Static

\* Mutant: get<I> refers to the first outermost element whatever I is.
get_first(p, sh, I) == op_index(p, sh, 0)

\* get<I>(array_nd_ref<A>& a) and get<I>(array_nd_ref<A> const& a): a[I]
get(p, sh, I) == op_index(p, sh, I)

\* get<I>(array_nd_ref<A>&& a): get<I>(a) on the parameter as an lvalue
get_rvalue(p, sh, I) == get(p, sh, I)

\* How the decomposed wrapper is held: "value" is a temporary copy of x
\* (auto&& [c,d] = array_nd_ref{...}), "ref" is x itself (auto& [e,f] = x),
\* "cref" is x through a reference to const (auto const& [E,F] = x).
Passing == {"value", "ref", "cref"}

\* The outermost element I that a decomposition of the wrapper with pointer p,
\* held as `how`, refers to.
binding(p, how, I) ==
    IF how = "value"
    THEN LET tmp == p                    \* the copy's pointer member
         IN  get_rvalue(tmp, shape, I)
    ELSE get(p, shape, I)

\* get<I>(x), I < extent
Get(I, how) ==
    /\ I < extent(shape)
    /\ last' = Call("get", [I |-> I, how |-> how], binding(a.x, how, I), FALSE)
    /\ UNCHANGED <<mem, a>>
    /\ Static

\* auto& [e, ...] = x; e[t1]...[tk] = v: a write through binding I.  The
\* binding is const when the array type is const or the wrapper is held by
\* reference to const.
WriteGet(I, how, t, v) ==
    /\ I < extent(shape)
    /\ ~is_const
    /\ how # "cref"
    /\ mem' = [mem EXCEPT
                 ![index_chain(binding(a.x, how, I), remove_extent_type(shape), t)]
                     = v]
    /\ last' = Call("get=", [I |-> I, how |-> how, t |-> t], v, FALSE)
    /\ UNCHANGED a
    /\ Static

NextAccess ==
    \/ \E w \in Wrappers, p \in Handles : Construct(w, p)
    \/ \E I \in 0..(extent(shape) - 1) : Index(I)
    \/ \E I \in 0..(extent(shape) - 1) : CallOp(I)
    \/ \E idx \in Indices(shape) : CallChain(idx)
    \/ \E idx \in Indices(shape) : IndexChain(idx)
    \/ \E idx \in Indices(shape), v \in Val : WriteCall(idx, v)
    \/ \E idx \in Indices(shape), v \in Val : WriteIndex(idx, v)
    \/ \E I \in 0..(extent(shape) - 1), how \in Passing : Get(I, how)
    \/ \E I \in 0..(extent(shape) - 1), how \in Passing,
          t \in Indices(remove_extent_type(shape)), v \in Val :
             WriteGet(I, how, t, v)
    \/ \E e \in Val : Fill(e)
    \/ \E impl \in CopyImpls : Assign(impl)
    \/ Swap

\* Element reads through x in every form, and every way of writing elements.
SpecAccess == InitWindows /\ [][NextAccess]_vars

-----------------------------------------------------------------------------
\* C11: x(I) is a wrapper whose pointer addresses the subarray x[I]; for every
\* valid index tuple x(i1)(i2)... and x[i1][i2]... are the same storage
\* location, so a value written through one form is read through the other
\* (for rank 1 both forms are the same element).
IndexingAgrees ==
    /\ \A w \in Wrappers : \A idx \in Indices(shape) :
          call_chain(a[w], shape, idx) = index_chain(a[w], shape, idx)
    /\ last.op = "()" => last.r = op_index(a.x, shape, last.arg)
    /\ last.op = "()()" => last.r = index_chain(a.x, shape, last.arg)
    /\ last.op = "[][]" => last.r = call_chain(a.x, shape, last.arg)
    /\ last.op = "()=" => mem[index_chain(a.x, shape, last.arg)] = last.r
    /\ last.op = "[]=" => mem[call_chain(a.x, shape, last.arg)] = last.r

\* x(1)(1) = true on a 2x2 window bound at the second row of the storage,
\* whose other scalars are false.
IndexingWitness ==
    /\ last.op = "()="
    /\ shape = <<2, 2>>
    /\ a.x = 2
    /\ last.arg = <<1, 1>>
    /\ last.r = 1
    /\ \A q \in HeapAddrs : mem[q] = 1 <=> q = 5

\* C12: get<I>(x), I < extent, refers to outermost element I of the storage
\* x views, the same for x held by value (a temporary copy), by reference
\* and by reference to const; a value written through a binding is read
\* through the array and through the bindings of every copy of the wrapper,
\* and a value written through the array is read through the bindings.
DecompositionRefersToStorage ==
    /\ last.op = "get" => last.r = op_index(a.x, shape, last.arg.I)
    /\ last.op = "get="
       => /\ mem[scalar_at(a.x, shape, <<last.arg.I>> \o last.arg.t)] = last.r
          /\ \A w \in Wrappers : \A how \in Passing :
                a[w] = a.x
                => mem[index_chain(binding(a[w], how, last.arg.I),
                                   Tail(shape), last.arg.t)] = last.r
    /\ last.op = "[]="
       => \A w \in Wrappers : \A how \in Passing :
             a[w] = a.x
             => mem[index_chain(binding(a[w], how, last.arg[1]),
                                Tail(shape), Tail(last.arg))] = last.r

\* A write of true through the second binding of a temporary copy of a 2x2
\* window that y views too, into storage that is false elsewhere.
DecompositionWitness ==
    /\ last.op = "get="
    /\ shape = <<2, 2>>
    /\ last.arg.how = "value"
    /\ last.arg.I = 1
    /\ last.arg.t = <<0>>
    /\ a.x = 2
    /\ a.y = a.x
    /\ last.r = 1
    /\ \A q \in HeapAddrs : mem[q] = 1 <=> q = 4

\* The same operations over the array types of the operation sequences.
SpecConst == Init /\ [][NextAccess]_vars

\* The operations that write elements through x.
Mutation ==
    \/ \E e \in Val : Fill(e)
    \/ \E impl \in CopyImpls : Assign(impl)
    \/ Swap
    \/ \E idx \in Indices(shape), v \in Val : WriteCall(idx, v)
    \/ \E idx \in Indices(shape), v \in Val : WriteIndex(idx, v)
    \/ \E I \in 0..(extent(shape) - 1), how \in Passing,
          t \in Indices(remove_extent_type(shape)), v \in Val :
             WriteGet(I, how, t, v)

\* C13: through a wrapper over a const array type fill, deep assignment, deep
\* swap and element writes are not available and no step changes the
\* storage; over a mutable array type each of them is available (the element
\* reference is writable).
ConstForbidsMutation ==
    /\ [][is_const => mem' = mem]_vars
    /\ [](is_const => ~ENABLED Mutation)
    /\ [](~is_const
          => /\ ENABLED (\E e \in Val : Fill(e))
             /\ ENABLED (\E impl \in CopyImpls : Assign(impl))
             /\ ENABLED Swap
             /\ \A idx \in Indices(shape), v \in Val :
                   /\ ENABLED WriteCall(idx, v)
                   /\ ENABLED WriteIndex(idx, v))

\* A const 1x2 window after a read through it, over storage of mixed content.
ConstWitness ==
    /\ is_const
    /\ shape = <<1, 2>>
    /\ last.op = "[][]"
    /\ a.x = 2
    /\ \E q, r \in Cells(a.x, shape) : mem[q] # mem[r]

-----------------------------------------------------------------------------
\* Traits.  A type is the built-in array type T[E1]..[ER] (the scalar type T
\* when it has no extents), the wrapper over such an array type, or the
\* outcome of an instantiation that does not compile.

ArrayT(sh, c) == [kind |-> "array", sh |-> sh, const |-> c]
RefT(sh, c) == [kind |-> "array_nd_ref", sh |-> sh, const |-> c]
IllFormed == [kind |-> "ill-formed", sh |-> <<>>, const |-> FALSE]

\* std::rank_v, std::extent_v, std::remove_extent_t, std::remove_all_extents_t:
\* for a type that is not an array 0, 0, the type, the type.
std_rank(T) == IF T.kind = "array" THEN Len(T.sh) ELSE 0
std_extent(T) == IF T.kind = "array" /\ T.sh # <<>> THEN T.sh[1] ELSE 0
std_remove_extent(T) ==
    IF T.kind = "array" /\ T.sh # <<>> THEN ArrayT(Tail(T.sh), T.const) ELSE T
std_remove_all_extents(T) ==
    IF T.kind = "array" THEN ArrayT(<<>>, T.const) ELSE T

is_array_nd_ref(T) == T.kind = "array_nd_ref"

\* array_nd_ref<A>::cv_array_type is A, ::array_type is remove_cv_t<A>,
\* ::element_type is remove_all_extents_t<A>.
cv_array_type(T) == ArrayT(T.sh, T.const)
element_type(T) == std_remove_all_extents(cv_array_type(T))

\* array_nd_ref<A>, requires std::is_array_v<A> && std::extent_v<A> != 0.
array_nd_ref(T) ==
    IF T.kind = "array" /\ std_extent(T) # 0 THEN RefT(T.sh, T.const)
    ELSE IllFormed

\* typename W::element_type
member_element_type(W) ==
    IF is_array_nd_ref(W) THEN element_type(W) ELSE IllFormed

\* array_t<A>: A::array_type for the wrapper, A otherwise.
array_t(T) == IF is_array_nd_ref(T) THEN ArrayT(T.sh, FALSE) ELSE T

\* Rank<A>, Extent<A>: of array_t<A> for the wrapper, std:: otherwise.
Rank(T) == IF is_array_nd_ref(T) THEN std_rank(array_t(T)) ELSE std_rank(T)
Extent(T) ==
    IF is_array_nd_ref(T) THEN std_extent(array_t(T)) ELSE std_extent(T)

\* remove_all_extents<A>: of A::cv_array_type for the wrapper.
remove_all_extents(T) ==
    IF is_array_nd_ref(T) THEN std_remove_all_extents(cv_array_type(T))
    ELSE std_remove_all_extents(T)

\* remove_extent<A>, in the order of the specializations:
\*   wrapper with Rank<A> == 1: array_nd_ref<A>::element_type, where A is the
\*     wrapper type itself, not an array: the constraint of array_nd_ref
\*     fails and the instantiation does not compile;
\*   array_nd_ref<T[N]> with Rank<T> > 1: array_nd_ref<T>;
\*   otherwise the primary template, std::remove_extent<A>.
remove_extent(T) ==
    IF is_array_nd_ref(T) /\ Rank(T) = 1
    THEN member_element_type(array_nd_ref(T))
    ELSE IF is_array_nd_ref(T) /\ Rank(ArrayT(Tail(T.sh), T.const)) > 1
    THEN RefT(Tail(T.sh), T.const)
    ELSE std_remove_extent(T)

Traits == {"Rank", "Extent", "remove_extent", "remove_all_extents"}

trait(name, T) ==
    CASE name = "Rank" -> Rank(T)
      [] name = "Extent" -> Extent(T)
      [] name = "remove_extent" -> remove_extent(T)
      [] name = "remove_all_extents" -> remove_all_extents(T)

\* The array type A of the state and the wrapper type over it.
A_type == ArrayT(shape, is_const)
Ref_type == RefT(shape, is_const)

\* A trait query on A (wrapped = 0) or on array_nd_ref<A> (wrapped = 1).
Query(name, wrapped) ==
    /\ last' = Call(name, wrapped,
                    trait(name, IF wrapped = 1 THEN Ref_type ELSE A_type),
                    FALSE)
    /\ UNCHANGED <<mem, a>>
    /\ Static

NextTraits == \E name \in Traits, wrapped \in {0, 1} : Query(name, wrapped)
SpecTraits == InitWhole /\ [][NextTraits]_vars

\* C14 (as claimed): for the wrapper over T[E1]..[ER] Rank is R, Extent is E1,
\* remove_all_extents is T, and remove_extent is the wrapper over T[E2]..[ER]
\* when R > 1 and T when R = 1; for the array type they are R, E1, T and
\* T[E2]..[ER].
TraitsUniform ==
    /\ last.op = "Rank" => last.r = rank(shape)
    /\ last.op = "Extent" => last.r = extent(shape)
    /\ last.op = "remove_all_extents" => last.r = ArrayT(<<>>, is_const)
    /\ last.op = "remove_extent"
       => last.r = IF last.arg = 1 /\ rank(shape) > 1
                   THEN RefT(Tail(shape), is_const)
                   ELSE ArrayT(Tail(shape), is_const)

-----------------------------------------------------------------------------
\* The element-wise mutators through windows of W rows at any row offset of
\* storage of 2W rows.
NextMutate ==
    \/ NextFill
    \/ NextAssign
    \/ NextSwap

SpecMutate == InitInputs /\ [][NextMutate]_vars

\* Rows of the storage and the cells of a row.
RowCells(r) ==
    Cells(op_index(0, <<rows>> \o Tail(shape), r), Tail(shape))
WindowRows(p) ==
    {r \in 0..(rows - 1) : RowCells(r) \subseteq Cells(p, shape)}

\* C15: fill, deep assignment and deep swap through the window x of W rows at
\* row offset i change only scalars of rows i..i+W-1 (deep swap also the
\* rows of the other array); every other row keeps its value.
WindowFrame ==
    [][last'.op \in {"fill", "=", "swap(A&)"}
        => \A r \in 0..(rows - 1) :
              (/\ r \notin WindowRows(a.x)
               /\ ~(last'.op = "swap(A&)" /\ r \in WindowRows(a.y)))
              => \A q \in RowCells(r) : mem'[q] = mem[q]]_vars

\* fill(true) through a 2x2 window at row offset 1 of 4 rows: rows 0 and 3
\* still hold false.
WindowFrameWitness ==
    /\ last.op = "fill"
    /\ last.arg = 1
    /\ shape = <<2, 2>>
    /\ rows = 4
    /\ a.x = 2
    /\ WindowRows(a.x) = {1, 2}
    /\ \A q \in HeapAddrs : mem[q] = 1 <=> q \in Cells(a.x, shape)

-----------------------------------------------------------------------------
\* The source of x = b is a window of the same storage that overlaps x's
\* window without being it.
PartialOverlap == a.x # a.y /\ ~Disjoint(a.x, a.y, shape)

\* C16 (as claimed): after x = b with b a partially overlapping window, at
\* row offset s before or after x's row offset d, x's window holds at every
\* multi-index the value b held before the assignment.
AssignFromOverlapAsIfBuffered ==
    [][(last'.op = "=" /\ PartialOverlap)
        => \A idx \in Indices(shape) :
              mem'[scalar_at(a'.x, shape, idx)]
                 = mem[scalar_at(a.y, shape, idx)]]_vars

\* C16 (amended): the same when the source window starts after the
\* destination window (d < s).
AssignFromLaterOverlap ==
    [][(last'.op = "=" /\ PartialOverlap /\ a.x < a.y)
        => \A idx \in Indices(shape) :
              mem'[scalar_at(a'.x, shape, idx)]
                 = mem[scalar_at(a.y, shape, idx)]]_vars

\* A 2x2 window at row 0 assigned from the window at row 1 of rows
\* (0,1) (1,0) (1,0): the rows were (?,?) (0,1) (1,0) before.
AssignOverlapWitness ==
    /\ last.op = "="
    /\ shape = <<2, 2>>
    /\ a.x = 0
    /\ a.y = 2
    /\ mem[0] = 0 /\ mem[1] = 1
    /\ mem[2] = 1 /\ mem[3] = 0
    /\ mem[4] = 1 /\ mem[5] = 0

-----------------------------------------------------------------------------
\* The non-member comparison of two wrappers.
compare_refs(op, m, x, y, sh) ==
    CASE op = "==" -> op_eq(m, x, y, sh)
      [] op = "!=" -> op_ne(m, x, y, sh)
      [] op = "<"  -> op_lt(m, x, y, sh)
      [] op = ">"  -> op_gt(m, x, y, sh)
      [] op = "<=" -> op_le(m, x, y, sh)
      [] op = ">=" -> op_ge(m, x, y, sh)

\* C17: for two wrappers x, y of the same shape exactly one of x < y, x == y,
\* x > y holds; x > y iff y < x; x <= y iff not (y < x) iff (x < y or
\* x == y); x >= y iff not (x < y); and the member comparison of x with the
\* array y views gives what the comparison of the two wrappers gives.
ComparisonsConsistent ==
    LET lt == op_lt(mem, a.x, a.y, shape)
        eq == op_eq(mem, a.x, a.y, shape)
        gt == op_gt(mem, a.x, a.y, shape)
        yx == op_lt(mem, a.y, a.x, shape)
    IN  /\ BoolInt(lt) + BoolInt(eq) + BoolInt(gt) = 1
        /\ last.op = "<" => (last.r = 1 <=> lt)
        /\ last.op = "==" => (last.r = 1 <=> eq)
        /\ last.op = "!=" => (last.r = 1 <=> (lt \/ gt))
        /\ last.op = ">" => (last.r = 1 <=> yx)
        /\ last.op = "<="
           => /\ last.r = 1 <=> ~yx
              /\ last.r = 1 <=> (lt \/ eq)
        /\ last.op = ">="
           => /\ last.r = 1 <=> ~lt
              /\ last.r = 1 <=> (gt \/ eq)
        /\ last.op \in CompareOps
           => last.r = BoolInt(compare_refs(last.op, mem, a.x, a.y, shape))

\* x <= y holds of two different 2x2 arrays with equal contents, not all
\* scalars alike.
ComparisonsWitness ==
    /\ last.op = "<="
    /\ last.r = 1
    /\ shape = <<2, 2>>
    /\ a.x # a.y
    /\ AllEqual(mem, a.x, a.y, shape)
    /\ mem[a.x] # mem[a.x + 3]

====
